---- MODULE Spec2Model ----
(***************************************************************************)
(* Model of the canvas interaction surface of image-canvas/src/canvas.ts   *)
(* (class ImageCanvas): the image list, the groups, the viewport, the      *)
(* gesture state and the handlers and public methods that change them.     *)
(*                                                                         *)
(* Conventions                                                             *)
(*  - an ImageNode object is a record; its object identity (what a         *)
(*    reference held in dragState.draggedImages points at) is the field    *)
(*    oid, its string id the field id.  crypto.randomUUID() is a fresh     *)
(*    number taken from nextUid.                                           *)
(*  - an absent groupId (undefined) is None.                               *)
(*  - numbers are integers; the inputs are chosen so that every division   *)
(*    the handlers make is exact.  The viewport scale is kept in           *)
(*    thousandths (ScaleOne = 1.0).                                        *)
(***************************************************************************)
EXTENDS Integers, Sequences, FiniteSets, TLC

\* ------------------------------------------------------------------ bounds

\* image objects ever created by addImage
MaxUid == 3
\* groups ever created by groupSelectedImages
MaxGroupId == 2
\* decodes in flight at once
MaxPending == 1
\* image objects ever created by addImageFromData
MaxUpdates == 1

\* images on the canvas while pointer events arrive in any order
MaxGestureImages == 1

\* images and groups made while the names of the groups are examined
MaxNamedImages == 4

MaxNamedGroups == 3

\* HTTP requests and sockets the API client issues in one behaviour
MaxRequests == 2

\* ------------------------------------------------------------- environment

None == 0

\* canvas.getBoundingClientRect()
CanvasRect == [width |-> 8, height |-> 8]

\* offsetX/offsetY of the pointer events delivered to the canvas
ScreenPoints == {[x |-> 0, y |-> 4], [x |-> 4, y |-> 4], [x |-> 8, y |-> 4]}

\* natural sizes a decoded image may have
NaturalSizes == {[w |-> 2, h |-> 2]}

\* positions carried by the ImageNode data handed to addImageFromData
DataPositions == {[x |-> -1, y |-> 3]}

\* key codes of the keyboard events
KeyCodes == {"Delete"}

\* dragging is cut off beyond this distance from the origin
MaxCoord == 4
\* panning and zooming are cut off beyond this translation
MaxPan == 60
\* setTimeout callbacks of notifySelectionChange waiting at once
MaxTimers == 2
\* decodes in flight at once while the loading is examined
MaxInFlight == 2
\* image objects ever created by addImageFromData while the loading is examined
MaxDataLoads == 2
\* image objects ever created by addImage while the loading is examined
MaxLoadImages == 2

\* offsetX/offsetY of the wheel events and of the pointer events of a pan, on
\* a canvas measured finely enough for the products of a zoom to be whole
WheelPoints == {[x |-> 0, y |-> 0], [x |-> 50, y |-> 50], [x |-> 100, y |-> 0]}

\* key codes of the keyboard events while panning and zooming
PanKeyCodes == {"Space"}

\* null, for the canvasId and websocket fields of the API client
Null == "null"

\* the canvas ids a server gives out and a caller passes, the empty string
\* included (setCanvasId takes any string)
CanvasIdStrings == {"", "c1"}

\* --------------------------------------------------------------- constants

\* const maxWidth = 320
maxWidth == 320

\* viewport.scale = 1, in thousandths
ScaleOne == 1000

\* Math.max(0.1, ...), in thousandths
ScaleMin == 100
\* Math.min(5, ...), in thousandths
ScaleMax == 5000
\* zoomFactor = e.deltaY > 0 ? 0.9 : 1.1, in thousandths
ZoomOut == 900
ZoomIn == 1100

\* ----------------------------------------------------------------- state

VARIABLES
    images,           \* this.images: ImageNode[]
    groups,           \* this.groups: ImageGroup[]
    viewport,         \* this.viewport
    dragState,        \* this.dragState
    selectionState,   \* this.selectionState
    isPanning,        \* this.isPanning
    keys,             \* this.keys
    needsRedraw,      \* this.needsRedraw
    onSelectionChange,\* whether this.onSelectionChange is set
    timers,           \* callbacks scheduled by setTimeout and not yet run
    focused,          \* document.activeElement === this.canvas
    pending,          \* image decodes in flight (Image objects awaiting onload/onerror)
    nextUid,          \* source of crypto.randomUUID() and of object identities for addImage
    updates,          \* image objects created by addImageFromData so far
    nextGroupId,      \* source of crypto.randomUUID() for groups
    pressed,          \* the pointer is down (between pointerdown and pointerup)
    last,             \* the operation that ran last, with its inputs and result
    canvasId,         \* canvasAPI.canvasId
    websocket,        \* canvasAPI.websocket: Null, or the canvas id in the socket's URL
    apiCallbacks,     \* whether canvasAPI.onCanvasUpdate/onChatMessage/onUserJoined were assigned
    requests,         \* the fetch() calls and WebSocket constructions made so far
    awaiting,         \* createCanvas/getCanvas calls suspended at their await
    outcome,          \* the API method called last and what it threw before returning
    sockets,          \* the WebSocket objects constructed so far, in order
    delivered,        \* the connectWebSocket call whose callbacks got the last inbound message
    painted           \* what the last draw() put on the canvas element

\* the state of the CanvasAPI singleton and of its traffic
apiVars == <<canvasId, websocket, apiCallbacks, requests, awaiting, outcome,
             sockets, delivered>>

vars == <<images, groups, viewport, dragState, selectionState, isPanning, keys,
          needsRedraw, onSelectionChange, timers, focused, pending, nextUid,
          updates, nextGroupId, pressed, last, apiVars, painted>>

\* the state of the ImageCanvas object and of its decodes
canvasVars == <<images, groups, viewport, dragState, selectionState, isPanning, keys,
                needsRedraw, onSelectionChange, timers, focused, pending, nextUid,
                updates, nextGroupId>>

\* ------------------------------------------------------------ sequences

Range(s) == {s[i] : i \in DOMAIN s}

Indices(s) == 1..Len(s)

\* Array.prototype.filter on the image list, as the indices kept
SelectedIndices(imgs) == {i \in Indices(imgs) : imgs[i].selected}

\* this.images.filter(img => img.selected)
SelectedImages(imgs) == SelectSeq(imgs, LAMBDA img : img.selected)

\* selectedImages.map(img => img.id)
RECURSIVE IdsOf(_)
IdsOf(imgs) ==
    IF imgs = <<>> THEN <<>> ELSE <<Head(imgs).id>> \o IdsOf(Tail(imgs))

\* a search that finds nothing: the variant C18 is checked to exclude
FindIndexNone(imgs, imageId) == 0

\* index of the first image with the given id, 0 when there is none
\* (Array.prototype.find / findIndex)
FindIndex(imgs, imageId) ==
    IF \E i \in Indices(imgs) : imgs[i].id = imageId
    THEN CHOOSE i \in Indices(imgs) :
             /\ imgs[i].id = imageId
             /\ \A j \in 1..(i - 1) : imgs[j].id # imageId
    ELSE 0

\* ---------------------------------------------------------------- groups

\* group.imageIds.filter(id => id !== imageId)
WithoutId(imageIds, imageId) == SelectSeq(imageIds, LAMBDA id : id # imageId)

\* StripGroups with the filter weakened to imageIds.length > 0: the variant
\* C3 is checked to exclude
StripGroupsKeepingSingletons(grps, imageId) ==
    SelectSeq([k \in Indices(grps) |->
                  [grps[k] EXCEPT !.imageIds = WithoutId(grps[k].imageIds, imageId)]],
              LAMBDA group : Len(group.imageIds) > 0)

\* this.groups.map(group => ({...group, imageIds: ...}))
\*     .filter(group => group.imageIds.length > 1)
StripGroups(grps, imageId) ==
    SelectSeq([k \in Indices(grps) |->
                  [grps[k] EXCEPT !.imageIds = WithoutId(grps[k].imageIds, imageId)]],
              LAMBDA group : Len(group.imageIds) > 1)

\* removeFromGroup without image.groupId = undefined: the variant C7 is
\* checked to exclude
removeFromGroupKeepingGroupId(st, imageId) ==
    [groups |-> StripGroups(st.groups, imageId), images |-> st.images]

\* removeFromGroup(imageId), on the pair st = [images, groups]: the id is
\* taken out of every group, groups left with fewer than 2 ids are dropped,
\* and the groupId of the first image with that id is cleared
removeFromGroup(st, imageId) ==
    LET at == FindIndex(st.images, imageId)
    IN  [groups |-> StripGroups(st.groups, imageId),
         images |-> IF at = 0 THEN st.images
                    ELSE [st.images EXCEPT ![at].groupId = None]]

\* objs.forEach(img => { if (img.groupId) { this.removeFromGroup(img.id); } })
\* where objs are the image objects at the indices idx (ascending) of the
\* image list; img.groupId is read when the loop reaches img
RECURSIVE RemoveEach(_, _)
RemoveEach(st, idx) ==
    IF idx = {} THEN st
    ELSE LET i == CHOOSE m \in idx : \A n \in idx : m <= n
             img == st.images[i]
         IN  RemoveEach(IF img.groupId # None THEN removeFromGroup(st, img.id) ELSE st,
                        idx \ {i})

\* canGroup that is content with one selected image: the variant C19 is
\* checked to exclude
canGroupOne(imgs) == Len(SelectedImages(imgs)) >= 1

\* canGroup()
canGroup(imgs) == Len(SelectedImages(imgs)) >= 2

\* canUngroup()
canUngroup(imgs) == \E i \in Indices(imgs) : imgs[i].selected /\ imgs[i].groupId # None

\* getSelectedCount()
getSelectedCount(imgs) == Len(SelectedImages(imgs))

\* -------------------------------------------------------------- geometry

Min(a, b) == IF a <= b THEN a ELSE b

Max(a, b) == IF a >= b THEN a ELSE b

Abs(a) == IF a >= 0 THEN a ELSE -a

\* screenToWorld(screenPoint): (screen - translate) / scale
screenToWorld(vp, p) ==
    [x |-> ((p.x - vp.tx) * ScaleOne) \div vp.scale,
     y |-> ((p.y - vp.ty) * ScaleOne) \div vp.scale]

\* worldToScreen(worldPoint): world * scale + translate
worldToScreen(vp, p) ==
    [x |-> (p.x * vp.scale) \div ScaleOne + vp.tx,
     y |-> (p.y * vp.scale) \div ScaleOne + vp.ty]

\* the test of getImageAt: the box of img, edges included, contains the point
Contains(img, p) ==
    /\ p.x >= img.x /\ p.x <= img.x + img.w
    /\ p.y >= img.y /\ p.y <= img.y + img.h

\* the loop of getImageAt from index i down to the first image: the index of
\* the first image met whose box contains the point, 0 (null) when none does
RECURSIVE getImageAtFrom(_, _, _)
getImageAtFrom(imgs, p, i) ==
    IF i < 1 THEN 0
    ELSE IF Contains(imgs[i], p) THEN i
    ELSE getImageAtFrom(imgs, p, i - 1)

\* a hit test that scans the list from its first image: the variant C30 is
\* checked to exclude
getImageAtFirst(imgs, p) ==
    IF \E i \in Indices(imgs) : Contains(imgs[i], p)
    THEN CHOOSE i \in Indices(imgs) :
             /\ Contains(imgs[i], p)
             /\ \A j \in 1..(i - 1) : ~Contains(imgs[j], p)
    ELSE 0

\* getImageAt(worldPoint): for (let i = this.images.length - 1; i >= 0; i--)
getImageAt(imgs, p) == getImageAtFrom(imgs, p, Len(imgs))

\* getMarqueeRect without Math.min and Math.abs, spanned from the start point:
\* the variant C12 is checked to exclude
getMarqueeRectFromStart(sel) ==
    [x |-> sel.startPoint.x, y |-> sel.startPoint.y,
     w |-> sel.currentPoint.x - sel.startPoint.x,
     h |-> sel.currentPoint.y - sel.startPoint.y]

\* getMarqueeRect()
getMarqueeRect(sel) ==
    [x |-> Min(sel.startPoint.x, sel.currentPoint.x),
     y |-> Min(sel.startPoint.y, sel.currentPoint.y),
     w |-> Abs(sel.currentPoint.x - sel.startPoint.x),
     h |-> Abs(sel.currentPoint.y - sel.startPoint.y)]

\* rectanglesIntersect(a, b)
rectanglesIntersect(a, b) ==
    ~(a.x + a.w < b.x \/ b.x + b.w < a.x \/ a.y + a.h < b.y \/ b.y + b.h < a.y)

\* ------------------------------------------------------------- selection

\* clearSelection(), without its notification
clearSelection(imgs) == [i \in Indices(imgs) |-> [imgs[i] EXCEPT !.selected = FALSE]]

\* selectGroup that selects nothing beyond the hit image: the variant C10 is
\* checked to exclude
selectGroupHitOnly(imgs, hit) == imgs

\* selectGroup(image), without its notification; hit is the index of image
selectGroup(imgs, hit) ==
    IF imgs[hit].groupId # None
    THEN [i \in Indices(imgs) |->
             IF imgs[i].groupId = imgs[hit].groupId
             THEN [imgs[i] EXCEPT !.selected = TRUE] ELSE imgs[i]]
    ELSE imgs

\* toggleGroup(image), without its notification; hit is the index of image
toggleGroup(imgs, hit) ==
    IF imgs[hit].groupId # None
    THEN LET groupImages == {i \in Indices(imgs) : imgs[i].groupId = imgs[hit].groupId}
             allSelected == \A i \in groupImages : imgs[i].selected
         IN  [i \in Indices(imgs) |->
                 IF i \in groupImages
                 THEN [imgs[i] EXCEPT !.selected = ~allSelected] ELSE imgs[i]]
    ELSE imgs

\* updateMarqueeSelection that also deselects the images outside the
\* rectangle: the variant C11 is checked to exclude
updateMarqueeSelectionExact(imgs, sel) ==
    [i \in Indices(imgs) |->
        [imgs[i] EXCEPT !.selected =
            rectanglesIntersect(getMarqueeRect(sel),
                                [x |-> imgs[i].x, y |-> imgs[i].y,
                                 w |-> imgs[i].w, h |-> imgs[i].h])]]

\* the loop of updateMarqueeSelection()
updateMarqueeSelection(imgs, sel) ==
    LET rect == getMarqueeRect(sel)
    IN  [i \in Indices(imgs) |->
            IF rectanglesIntersect(rect, [x |-> imgs[i].x, y |-> imgs[i].y,
                                          w |-> imgs[i].w, h |-> imgs[i].h])
            THEN [imgs[i] EXCEPT !.selected = TRUE] ELSE imgs[i]]

\* notifySelectionChange() called n times: each call schedules one timeout
\* when a callback is registered
notifySelectionChange(n) == IF onSelectionChange THEN timers + n ELSE timers

\* ------------------------------------------------------------------ init

Origin == [x |-> 0, y |-> 0]

\* selectionState with isSelecting false.  The code leaves startPoint and
\* currentPoint as they were when the marquee ends; it reads them only while
\* isSelecting is true (handlePointerMove, draw) and replaces both at the next
\* marquee, so the model keeps them only while the marquee is active.
IdleSelection == [isSelecting |-> FALSE, startPoint |-> Origin, currentPoint |-> Origin]

NoViewport == [scale |-> 0, tx |-> 0, ty |-> 0]

\* { isDragging: false, startPoint: { x: 0, y: 0 } }
IdleDrag ==
    [isDragging |-> FALSE, startPoint |-> Origin,
     hasViewport |-> FALSE, startViewport |-> NoViewport,
     hasImages |-> FALSE, draggedImages |-> <<>>, initialPositions |-> <<>>]

\* draw(): the images in list order, each with its box, its group border and
\* its selection highlight, under the viewport transform, and the marquee
\* rectangle while a marquee is active
draw(imgs, vp, sel) ==
    [images |-> [i \in Indices(imgs) |->
                    [x |-> imgs[i].x, y |-> imgs[i].y, w |-> imgs[i].w, h |-> imgs[i].h,
                     oid |-> imgs[i].oid, grouped |-> imgs[i].groupId # None,
                     selected |-> imgs[i].selected]],
     viewport |-> vp,
     marquee |-> IF sel.isSelecting THEN <<getMarqueeRect(sel)>> ELSE <<>>]

\* export const canvasAPI = new CanvasAPI()
InitApi ==
    /\ canvasId = Null
    /\ websocket = Null
    /\ apiCallbacks = FALSE
    /\ requests = <<>>
    /\ awaiting = <<>>
    /\ outcome = [op |-> "new", error |-> ""]
    /\ sockets = <<>>
    /\ delivered = 0

Init ==
    /\ InitApi
    /\ images = <<>>
    /\ groups = <<>>
    /\ viewport = [scale |-> ScaleOne, tx |-> 0, ty |-> 0]
    /\ dragState = IdleDrag
    /\ selectionState = IdleSelection
    /\ isPanning = FALSE
    /\ keys = {}
    /\ needsRedraw = FALSE
    /\ painted = draw(<<>>, viewport, IdleSelection)
    /\ onSelectionChange = FALSE
    /\ timers = 0
    /\ focused = FALSE
    /\ pending = <<>>
    /\ nextUid = 1
    /\ updates = 0
    /\ nextGroupId = 1
    /\ pressed = FALSE
    /\ last = "new"

\* --------------------------------------------------------- pointer events

\* the drag session handlePointerDown starts for the selected images of imgs
DragOf(imgs, worldPoint) ==
    LET selectedImages == SelectedImages(imgs)
        ids == {selectedImages[k].id : k \in Indices(selectedImages)}
    IN  [isDragging |-> TRUE, startPoint |-> worldPoint,
         hasViewport |-> FALSE, startViewport |-> NoViewport,
         hasImages |-> TRUE,
         draggedImages |-> [k \in Indices(selectedImages) |-> selectedImages[k].oid],
         initialPositions |->
             [id \in ids |->
                 LET k == CHOOSE m \in Indices(selectedImages) :
                              /\ selectedImages[m].id = id
                              /\ \A n \in (m + 1)..Len(selectedImages) :
                                     selectedImages[n].id # id
                 IN  [x |-> selectedImages[k].x, y |-> selectedImages[k].y]]]

\* hitImage.selected = value, hitImage being images[hit]
SetSelected(imgs, hit, value) ==
    [i \in Indices(imgs) |->
        IF i = hit THEN [imgs[i] EXCEPT !.selected = value] ELSE imgs[i]]

\* a pointer-down that reselects the hit image whether or not it was
\* selected: the variant C26 is checked to exclude
SelectionOnHitReselecting(imgs, hit, shiftKey) ==
    IF ~shiftKey
    THEN selectGroup(SetSelected(clearSelection(imgs), hit, TRUE), hit)
    ELSE toggleGroup(SetSelected(imgs, hit, ~imgs[hit].selected), hit)

\* the selection handlePointerDown leaves when the pointer hits images[hit]
SelectionOnHit(imgs, hit, shiftKey) ==
    IF ~shiftKey /\ ~imgs[hit].selected
    THEN selectGroup(SetSelected(clearSelection(imgs), hit, TRUE), hit)
    ELSE IF shiftKey
    THEN toggleGroup(SetSelected(imgs, hit, ~imgs[hit].selected), hit)
    ELSE imgs

\* the calls of notifySelectionChange handlePointerDown makes on a hit
NotifiedOnHit(imgs, hit, shiftKey) ==
    IF ~shiftKey /\ ~imgs[hit].selected THEN 2 ELSE 1

handlePointerDown(screenPoint, shiftKey) ==
    LET worldPoint == screenToWorld(viewport, screenPoint)
        hit == getImageAt(images, worldPoint)
    IN  /\ focused' = TRUE
        /\ IF "Space" \in keys
           THEN /\ isPanning' = TRUE
                /\ dragState' = [IdleDrag EXCEPT !.isDragging = TRUE,
                                                 !.startPoint = screenPoint,
                                                 !.hasViewport = TRUE,
                                                 !.startViewport = viewport]
                /\ UNCHANGED <<images, selectionState, needsRedraw, timers>>
           ELSE IF hit # 0
           THEN LET imgs == SelectionOnHit(images, hit, shiftKey)
                IN  /\ images' = imgs
                    /\ timers' = notifySelectionChange(NotifiedOnHit(images, hit, shiftKey))
                    /\ dragState' = IF SelectedIndices(imgs) # {}
                                    THEN DragOf(imgs, worldPoint) ELSE dragState
                    /\ needsRedraw' = TRUE
                    /\ UNCHANGED <<selectionState, isPanning>>
           ELSE /\ images' = IF shiftKey THEN images ELSE clearSelection(images)
                /\ timers' = notifySelectionChange(IF shiftKey THEN 0 ELSE 1)
                /\ selectionState' = [isSelecting |-> TRUE, startPoint |-> worldPoint,
                                      currentPoint |-> worldPoint]
                /\ needsRedraw' = TRUE
                /\ UNCHANGED <<dragState, isPanning>>
        /\ UNCHANGED <<groups, viewport, keys, onSelectionChange, pending, nextUid, updates, nextGroupId>>

\* a drag that adds the delta to the current position of each image instead
\* of its position at pointer-down: the variant C24 is checked to exclude
DraggedIncrementally(imgs, drag, worldPoint) ==
    LET dx == worldPoint.x - drag.startPoint.x
        dy == worldPoint.y - drag.startPoint.y
        refs == Range(drag.draggedImages)
    IN  [i \in Indices(imgs) |->
            IF imgs[i].oid \in refs
            THEN [x |-> imgs[i].x + dx, y |-> imgs[i].y + dy, w |-> imgs[i].w,
                  h |-> imgs[i].h, selected |-> imgs[i].selected, id |-> imgs[i].id,
                  groupId |-> imgs[i].groupId, oid |-> imgs[i].oid]
            ELSE imgs[i]]

\* img.x = initialPos.x + dx; img.y = initialPos.y + dy for the dragged objects
Dragged(imgs, drag, worldPoint) ==
    LET dx == worldPoint.x - drag.startPoint.x
        dy == worldPoint.y - drag.startPoint.y
        refs == Range(drag.draggedImages)
    IN  [i \in Indices(imgs) |->
            IF imgs[i].oid \in refs
            THEN [imgs[i] EXCEPT !.x = drag.initialPositions[imgs[i].id].x + dx,
                                 !.y = drag.initialPositions[imgs[i].id].y + dy]
            ELSE imgs[i]]

\* the cut-off that keeps positions and translations finite
Near(x) == Abs(x) <= MaxCoord

handlePointerMove(screenPoint) ==
    LET worldPoint == screenToWorld(viewport, screenPoint)
    IN  /\ IF isPanning /\ dragState.isDragging /\ dragState.hasViewport
           THEN /\ viewport' = [viewport EXCEPT
                       !.tx = dragState.startViewport.tx + (screenPoint.x - dragState.startPoint.x),
                       !.ty = dragState.startViewport.ty + (screenPoint.y - dragState.startPoint.y)]
                /\ Abs(viewport'.tx) <= MaxPan /\ Abs(viewport'.ty) <= MaxPan
                /\ needsRedraw' = TRUE
                /\ UNCHANGED <<images, selectionState, timers>>
           ELSE IF dragState.isDragging /\ dragState.hasImages
           THEN /\ images' = Dragged(images, dragState, worldPoint)
                /\ \A i \in Indices(images') :
                       /\ Near(images'[i].x + images'[i].w \div 2)
                       /\ Near(images'[i].y + images'[i].h \div 2)
                /\ needsRedraw' = TRUE
                /\ UNCHANGED <<viewport, selectionState, timers>>
           ELSE IF selectionState.isSelecting
           THEN /\ selectionState' = [selectionState EXCEPT !.currentPoint = worldPoint]
                /\ images' = updateMarqueeSelection(images, selectionState')
                /\ timers' = notifySelectionChange(1)
                /\ needsRedraw' = TRUE
                /\ UNCHANGED viewport
           ELSE UNCHANGED <<images, viewport, selectionState, timers, needsRedraw>>
        /\ UNCHANGED <<groups, dragState, isPanning, keys, onSelectionChange, focused,
                       pending, nextUid, updates, nextGroupId>>

\* a pointerup that ends the marquee and leaves the drag session and the
\* panning on: the variant C25 is checked to exclude
handlePointerUpMarqueeOnly ==
    /\ selectionState' = IdleSelection
    /\ needsRedraw' = TRUE
    /\ UNCHANGED <<images, groups, viewport, keys, onSelectionChange, timers, focused,
                   pending, nextUid, updates, nextGroupId, dragState, isPanning>>

handlePointerUp ==
    /\ selectionState' = IdleSelection
    /\ dragState' = IdleDrag
    /\ isPanning' = FALSE
    /\ needsRedraw' = TRUE
    /\ UNCHANGED <<images, groups, viewport, keys, onSelectionChange, timers, focused,
                   pending, nextUid, updates, nextGroupId>>

\* ------------------------------------------------------- selection callback

\* setSelectionChangeCallback(callback)
setSelectionChangeCallback ==
    /\ onSelectionChange' = TRUE
    /\ UNCHANGED <<images, groups, viewport, dragState, selectionState, isPanning, keys,
                   needsRedraw, timers, focused, pending, nextUid, updates, nextGroupId>>

\* a timer set by notifySelectionChange expires: this.onSelectionChange?.()
TimerFires ==
    /\ timers > 0
    /\ timers' = timers - 1
    /\ UNCHANGED <<images, groups, viewport, dragState, selectionState, isPanning, keys,
                   needsRedraw, onSelectionChange, focused, pending, nextUid, updates,
                   nextGroupId>>

\* ------------------------------------------------------------------- wheel

\* clamping that lets every scale through: the variant C14 is checked to
\* exclude
clampScaleNone(scale) == scale

\* Math.max(0.1, Math.min(5, scale))
clampScale(scale) == Max(ScaleMin, Min(ScaleMax, scale))

\* the translation moved the wrong way: the variant C13 is checked to exclude
anchorTranslateAdd(t, w, scaleDiff) == t + (w * scaleDiff) \div ScaleOne

\* this.viewport.tx -= (worldPoint.x * scaleDiff)
anchorTranslate(t, w, scaleDiff) == t - (w * scaleDiff) \div ScaleOne

\* handleWheel(e): screenPoint is e.offsetX/offsetY, zoomKey is
\* e.ctrlKey || e.metaKey, deltaYPositive is e.deltaY > 0
handleWheel(screenPoint, zoomKey, deltaYPositive) ==
    /\ IF zoomKey
       THEN LET worldPoint == screenToWorld(viewport, screenPoint)
                zoomFactor == IF deltaYPositive THEN ZoomOut ELSE ZoomIn
                newScale == clampScale((viewport.scale * zoomFactor) \div ScaleOne)
                scaleDiff == newScale - viewport.scale
            IN  /\ viewport' = [scale |-> newScale,
                                tx |-> anchorTranslate(viewport.tx, worldPoint.x, scaleDiff),
                                ty |-> anchorTranslate(viewport.ty, worldPoint.y, scaleDiff)]
                /\ needsRedraw' = TRUE
       ELSE UNCHANGED <<viewport, needsRedraw>>
    /\ UNCHANGED <<images, groups, dragState, selectionState, isPanning, keys,
                   onSelectionChange, timers, focused, pending, nextUid, updates,
                   nextGroupId>>

\* ---------------------------------------------------------------- keyboard

\* deleteSelectedImages(), as the pair [images, groups] it leaves
deleteSelectedImages(imgs, grps) ==
    LET st == RemoveEach([images |-> imgs, groups |-> grps], SelectedIndices(imgs))
    IN  [images |-> SelectSeq(st.images, LAMBDA img : ~img.selected),
         groups |-> st.groups]

\* the keydown listener; code stands for e.code and, for Delete and
\* Backspace, for e.key
handleKeyDown(code) ==
    /\ keys' = keys \cup {code}
    /\ IF code \in {"Delete", "Backspace"} /\ focused
       THEN LET st == deleteSelectedImages(images, groups)
            IN  /\ images' = st.images
                /\ groups' = st.groups
                /\ needsRedraw' = (IF Len(st.images) < Len(images) THEN TRUE ELSE needsRedraw)
       ELSE UNCHANGED <<images, groups, needsRedraw>>
    /\ UNCHANGED <<viewport, dragState, selectionState, isPanning, onSelectionChange,
                   timers, focused, pending, nextUid, updates, nextGroupId>>

\* the keyup listener
handleKeyUp(code) ==
    /\ keys' = keys \ {code}
    /\ UNCHANGED <<images, groups, viewport, dragState, selectionState, isPanning,
                   needsRedraw, onSelectionChange, timers, focused, pending, nextUid, updates,
                   nextGroupId>>

\* the input focus moves from the canvas to another element of the page
Blur ==
    /\ focused
    /\ focused' = FALSE
    /\ UNCHANGED <<images, groups, viewport, dragState, selectionState, isPanning, keys,
                   needsRedraw, onSelectionChange, timers, pending, nextUid, updates, nextGroupId>>

\* ------------------------------------------------------------ image loading

NoData == [id |-> None, x |-> 0, y |-> 0, w |-> 0, h |-> 0, groupId |-> None]

\* the ids the canvas knows: of its images and of its groups' members
KnownIds ==
    {images[i].id : i \in Indices(images)}
        \cup UNION {Range(groups[k].imageIds) : k \in Indices(groups)}

GroupIds == {groups[k].id : k \in Indices(groups)}

\* object identity of the n-th image object addImageFromData creates
DataOid(n) == 100 + n

\* addImage(src), up to img.src = src: the decode is in flight
addImage ==
    /\ pending' = Append(pending, [kind |-> "src", data |-> NoData])
    /\ UNCHANGED <<images, groups, viewport, dragState, selectionState, isPanning, keys,
                   needsRedraw, onSelectionChange, timers, focused, nextUid, updates, nextGroupId>>

Without(seq, k) == [j \in 1..(Len(seq) - 1) |-> IF j < k THEN seq[j] ELSE seq[j + 1]]

\* the node of a decoded image of natural size nat, at most maxWidth wide and
\* centred in the view
centredNode(nat, selected) ==
    LET width == IF nat.w > maxWidth THEN maxWidth ELSE nat.w
        height == IF nat.w > maxWidth THEN (nat.h * maxWidth) \div nat.w ELSE nat.h
        centerWorld == screenToWorld(viewport, [x |-> CanvasRect.width \div 2,
                                                y |-> CanvasRect.height \div 2])
    IN  [oid |-> nextUid, id |-> nextUid,
         x |-> centerWorld.x - width \div 2,
         y |-> centerWorld.y - height \div 2,
         w |-> width, h |-> height,
         selected |-> selected, groupId |-> None]

\* a new node that arrives selected: the variant C16 is checked to exclude
imageNodeSelected(nat) == centredNode(nat, TRUE)

\* const imageNode: ImageNode = {...}
imageNodeOf(nat) == centredNode(nat, FALSE)

\* img.onload of addImage, for a decoded image of natural size nat
addImageOnLoad(k, nat) ==
    /\ k \in Indices(pending) /\ pending[k].kind = "src"
    /\ images' = Append(images, imageNodeOf(nat))
    /\ nextUid' = nextUid + 1
    /\ needsRedraw' = TRUE
    /\ pending' = Without(pending, k)
    /\ UNCHANGED <<groups, viewport, dragState, selectionState, isPanning, keys,
                   onSelectionChange, timers, focused, updates, nextGroupId>>

\* img.onerror that leaves a node of no size behind: the variant C17 is
\* checked to exclude
imageOnErrorLeavingNode(k) ==
    /\ k \in Indices(pending)
    /\ pending' = Without(pending, k)
    /\ images' = Append(images, centredNode([w |-> 0, h |-> 0], FALSE))
    /\ nextUid' = nextUid + 1
    /\ UNCHANGED <<groups, viewport, dragState, selectionState, isPanning, keys,
                   needsRedraw, onSelectionChange, timers, focused, updates, nextGroupId>>

\* img.onerror of addImage and of addImageFromData: the promise is rejected
imageOnError(k) ==
    /\ k \in Indices(pending)
    /\ pending' = Without(pending, k)
    /\ UNCHANGED <<images, groups, viewport, dragState, selectionState, isPanning, keys,
                   needsRedraw, onSelectionChange, timers, focused, nextUid, updates, nextGroupId>>

\* addImageFromData(imageData), up to img.src = imageData.src; without a src
\* the promise is rejected at once
addImageFromData(imageData, hasSrc) ==
    /\ pending' = IF hasSrc THEN Append(pending, [kind |-> "data", data |-> imageData])
                  ELSE pending
    /\ UNCHANGED <<images, groups, viewport, dragState, selectionState, isPanning, keys,
                   needsRedraw, onSelectionChange, timers, focused, nextUid, updates, nextGroupId>>

\* img.onload of addImageFromData
addImageFromDataOnLoad(k) ==
    /\ k \in Indices(pending) /\ pending[k].kind = "data"
    /\ LET imageData == pending[k].data
           completeImageNode == [oid |-> DataOid(updates + 1), id |-> imageData.id,
                                 x |-> imageData.x, y |-> imageData.y,
                                 w |-> imageData.w, h |-> imageData.h,
                                 selected |-> FALSE, groupId |-> imageData.groupId]
           existingIndex == FindIndex(images, imageData.id)
       IN  images' = IF existingIndex > 0
                     THEN [images EXCEPT ![existingIndex] = completeImageNode]
                     ELSE Append(images, completeImageNode)
    /\ updates' = updates + 1
    /\ needsRedraw' = TRUE
    /\ pending' = Without(pending, k)
    /\ UNCHANGED <<groups, viewport, dragState, selectionState, isPanning, keys,
                   onSelectionChange, timers, focused, nextUid, nextGroupId>>

\* clearImages that leaves the dirty flag alone: the variant C28 is checked
\* to exclude
clearImagesUnflagged ==
    /\ images' = <<>>
    /\ UNCHANGED <<groups, viewport, dragState, selectionState, isPanning, keys, needsRedraw,
                   onSelectionChange, timers, focused, pending, nextUid, updates, nextGroupId>>

\* clearImages()
clearImages ==
    /\ images' = <<>>
    /\ needsRedraw' = TRUE
    /\ UNCHANGED <<groups, viewport, dragState, selectionState, isPanning, keys,
                   onSelectionChange, timers, focused, pending, nextUid, updates, nextGroupId>>

\* ------------------------------------------------------------- render loop

\* render(), the requestAnimationFrame callback of startRenderLoop
render ==
    /\ IF needsRedraw
       THEN /\ painted' = draw(images, viewport, selectionState)
            /\ needsRedraw' = FALSE
       ELSE UNCHANGED <<painted, needsRedraw>>
    /\ UNCHANGED <<images, groups, viewport, dragState, selectionState, isPanning, keys,
                   onSelectionChange, timers, focused, pending, nextUid, updates, nextGroupId>>

\* ---------------------------------------------------------------- grouping

\* groupSelectedImages() when at least 2 images are selected, as the pair
\* [images, groups] it leaves; groupId is the fresh crypto.randomUUID()
groupSelected(imgs, grps, groupId) ==
    LET sel == SelectedIndices(imgs)
        imageIds == IdsOf(SelectedImages(imgs))
        st == RemoveEach([images |-> imgs, groups |-> grps], sel)
        newGroup == [id |-> groupId, imageIds |-> imageIds, name |-> Len(st.groups) + 1]
    IN  [groups |-> Append(st.groups, newGroup),
         images |-> [i \in Indices(st.images) |->
                        IF i \in sel THEN [st.images[i] EXCEPT !.groupId = groupId]
                        ELSE st.images[i]]]

\* groupSelectedImages() while at most maxGroups groups have been made
groupSelectedImagesUpTo(maxGroups) ==
    /\ IF Len(SelectedImages(images)) < 2
       THEN UNCHANGED <<images, groups, needsRedraw, nextGroupId>>
       ELSE /\ nextGroupId <= maxGroups
            /\ LET st == groupSelected(images, groups, nextGroupId)
               IN  images' = st.images /\ groups' = st.groups
            /\ nextGroupId' = nextGroupId + 1
            /\ needsRedraw' = TRUE
    /\ UNCHANGED <<viewport, dragState, selectionState, isPanning, keys,
                   onSelectionChange, timers, focused, pending, nextUid, updates>>

groupSelectedImages == groupSelectedImagesUpTo(MaxGroupId)

\* the loop of ungroupSelectedImages() over the image objects at the indices
\* idx: st.ret collects ungroupedIds
RECURSIVE UngroupEach(_, _)
UngroupEach(st, idx) ==
    IF idx = {} THEN st
    ELSE LET i == CHOOSE m \in idx : \A n \in idx : m <= n
             img == st.images[i]
             rm == removeFromGroup(st, img.id)
         IN  UngroupEach(IF img.groupId # None
                         THEN [images |-> rm.images, groups |-> rm.groups,
                               ret |-> Append(st.ret, img.id)]
                         ELSE st,
                         idx \ {i})

\* ungroupSelectedImages(), as [images, groups, ret]
ungroupSelected(imgs, grps) ==
    UngroupEach([images |-> imgs, groups |-> grps, ret |-> <<>>],
                {i \in Indices(imgs) : imgs[i].selected /\ imgs[i].groupId # None})

ungroupSelectedImages ==
    /\ LET st == ungroupSelected(images, groups)
       IN  /\ images' = st.images
           /\ groups' = st.groups
    /\ needsRedraw' = TRUE
    /\ UNCHANGED <<viewport, dragState, selectionState, isPanning, keys,
                   onSelectionChange, timers, focused, pending, nextUid, updates, nextGroupId>>

\* ----------------------------------------------------------- specification

\* the ImageNode data addImageFromData is called with: an update of an image
\* the canvas has, or had when one of its groups was made
DataNodes ==
    [id : KnownIds, x : {p.x : p \in DataPositions},
     y : {p.y : p \in DataPositions}, w : {2}, h : {2}, groupId : {None} \cup GroupIds]

\* groupSelectedImages(): the value returned, <<>> for null
groupSelectedReturn(imgs, groupId) ==
    IF Len(SelectedImages(imgs)) < 2 THEN <<>> ELSE <<groupId>>

\* the events and calls the page delivers.  One pointer is active at a time:
\* a pointerdown is followed by pointermoves and one pointerup.  `last` names
\* the branch the last event or call took when it is a pointerdown, a deletion
\* of selected images, a grouping or an ungrouping that returned ids.

\* the branch handlePointerDown takes
DownBranch(p, shiftKey) ==
    LET hit == getImageAt(images, screenToWorld(viewport, p))
    IN  IF "Space" \in keys THEN "pan"
        ELSE IF hit = 0 THEN "marquee"
        ELSE IF ~shiftKey /\ ~images[hit].selected THEN "select"
        ELSE IF shiftKey THEN "toggle"
        ELSE "keep"

PointerDown(p, shiftKey) ==
    /\ ~pressed
    /\ pressed' = TRUE
    /\ handlePointerDown(p, shiftKey)
    /\ UNCHANGED <<apiVars, painted>>
    /\ last' = DownBranch(p, shiftKey)

\* the branch handlePointerMove takes
MoveBranch ==
    IF isPanning /\ dragState.isDragging /\ dragState.hasViewport THEN "pan"
    ELSE IF dragState.isDragging /\ dragState.hasImages THEN "drag"
    ELSE IF selectionState.isSelecting THEN "sweep"
    ELSE "none"

PointerMove(p) ==
    /\ pressed
    /\ handlePointerMove(p)
    /\ UNCHANGED <<apiVars, painted>>
    /\ last' = IF MoveBranch = "sweep" THEN "sweep" ELSE "other"
    /\ UNCHANGED pressed

PointerUp ==
    /\ pressed
    /\ pressed' = FALSE
    /\ handlePointerUp
    /\ UNCHANGED <<apiVars, painted>>
    /\ last' = "other"

KeyDown(code) ==
    /\ handleKeyDown(code)
    /\ UNCHANGED <<apiVars, painted>>
    /\ last' = IF code \in {"Delete", "Backspace"} /\ focused /\ SelectedIndices(images) # {}
               THEN "delete" ELSE "other"
    /\ UNCHANGED pressed

KeyUp(code) ==
    /\ handleKeyUp(code)
    /\ UNCHANGED <<apiVars, painted>>
    /\ last' = "other"
    /\ UNCHANGED pressed

Group ==
    /\ groupSelectedImages
    /\ UNCHANGED <<apiVars, painted>>
    /\ last' = IF groupSelectedReturn(images, nextGroupId) = <<>> THEN "other" ELSE "group"
    /\ UNCHANGED pressed

Ungroup ==
    /\ ungroupSelectedImages
    /\ UNCHANGED <<apiVars, painted>>
    /\ last' = IF ungroupSelected(images, groups).ret = <<>> THEN "other" ELSE "ungroup"
    /\ UNCHANGED pressed

\* the calls and callbacks `last` keeps no detail of
Other(A) == A /\ UNCHANGED <<apiVars, painted>> /\ last' = "other" /\ UNCHANGED pressed

\* the numbers a zoom at p computes are whole in the units of the model
WholeZoom(p, deltaYPositive) ==
    LET zoomFactor == IF deltaYPositive THEN ZoomOut ELSE ZoomIn
        worldPoint == screenToWorld(viewport, p)
        scaleDiff == clampScale((viewport.scale * zoomFactor) \div ScaleOne) - viewport.scale
    IN  /\ (viewport.scale * zoomFactor) % ScaleOne = 0
        /\ ((p.x - viewport.tx) * ScaleOne) % viewport.scale = 0
        /\ ((p.y - viewport.ty) * ScaleOne) % viewport.scale = 0
        /\ (worldPoint.x * scaleDiff) % ScaleOne = 0
        /\ (worldPoint.y * scaleDiff) % ScaleOne = 0

\* a wheel event
Wheel(p, zoomKey, deltaYPositive) ==
    /\ zoomKey => WholeZoom(p, deltaYPositive)
    /\ handleWheel(p, zoomKey, deltaYPositive)
    /\ Abs(viewport'.tx) <= MaxPan /\ Abs(viewport'.ty) <= MaxPan
    /\ UNCHANGED <<apiVars, painted>>
    /\ last' = IF zoomKey THEN "zoom" ELSE "other"
    /\ UNCHANGED pressed

\* the decodes of a kind ("src": addImage, "data": addImageFromData) in flight
InFlight(kind) == Cardinality({k \in Indices(pending) : pending[k].kind = kind})

\* image objects created so far or being decoded
Objects == (nextUid - 1) + updates + Len(pending)

\* a decode can be started and completed with at most MaxUid image objects made
Room == Objects < MaxUid /\ Len(pending) < MaxPending

\* the same with the objects of addImage and of addImageFromData counted apart
RoomForImage == nextUid + InFlight("src") <= MaxUid /\ Len(pending) < MaxPending

RoomForData == updates + InFlight("data") < MaxUpdates /\ Len(pending) < MaxPending

\* pointer gestures, the Delete key, addImage, grouping and ungrouping
NextCore ==
    \/ \E p \in ScreenPoints, shiftKey \in BOOLEAN : PointerDown(p, shiftKey)
    \/ \E p \in ScreenPoints : PointerMove(p)
    \/ PointerUp
    \/ \E code \in KeyCodes : KeyDown(code)
    \/ \E code \in KeyCodes : KeyUp(code)
    \/ Other(Blur)
    \/ Room /\ Other(addImage)
    \/ \E k \in Indices(pending), nat \in NaturalSizes : Other(addImageOnLoad(k, nat))
    \/ \E k \in Indices(pending) : Other(imageOnError(k))
    \/ Group
    \/ Ungroup

SpecCore == Init /\ [][NextCore]_vars

\* every event and public method
Next ==
    \/ NextCore
    \/ \E imageData \in DataNodes, hasSrc \in BOOLEAN :
           Room /\ Other(addImageFromData(imageData, hasSrc))
    \/ \E k \in Indices(pending) : Other(addImageFromDataOnLoad(k))
    \/ Other(clearImages)

Spec == Init /\ [][Next]_vars

\* images added, selected by the pointer and grouped while addImageFromData
\* updates one of them
NextData ==
    \/ \E p \in ScreenPoints, shiftKey \in BOOLEAN : PointerDown(p, shiftKey)
    \/ \E p \in ScreenPoints : PointerMove(p)
    \/ PointerUp
    \/ RoomForImage /\ Other(addImage)
    \/ \E k \in Indices(pending), nat \in NaturalSizes : Other(addImageOnLoad(k, nat))
    \/ \E imageData \in DataNodes : RoomForData /\ Other(addImageFromData(imageData, TRUE))
    \/ \E k \in Indices(pending) : Other(addImageFromDataOnLoad(k))
    \/ Group

SpecData == Init /\ [][NextData]_vars

\* images added and selected by the pointer, and groupSelectedImages called
\* in every state; `last` is "refused" when the call returned null
NextGroup ==
    \/ \E p \in ScreenPoints, shiftKey \in BOOLEAN : PointerDown(p, shiftKey)
    \/ \E p \in ScreenPoints : PointerMove(p)
    \/ PointerUp
    \/ Room /\ Other(addImage)
    \/ \E k \in Indices(pending), nat \in NaturalSizes : Other(addImageOnLoad(k, nat))
    \/ /\ groupSelectedImages
       /\ UNCHANGED <<apiVars, painted>>
       /\ last' = IF groupSelectedReturn(images, nextGroupId) = <<>>
                  THEN "refused" ELSE "group"
       /\ UNCHANGED pressed

SpecGroup == Init /\ [][NextGroup]_vars

\* an id the canvas has not made, carried by data handed to addImageFromData
ExternalId == 9

\* the data handed to addImageFromData while the loading is examined
LoadData ==
    [id : {images[i].id : i \in Indices(images)} \cup {ExternalId},
     x : {p.x : p \in DataPositions}, y : {p.y : p \in DataPositions},
     w : {2}, h : {2}, groupId : {None}]

\* decodes completing and failing in any order, between the events of
\* pointer gestures, deletions and clearImages; `last` names the completion
\* ("loaded") or failure ("failed") of a decode of addImage
NextLoad ==
    \/ \E p \in ScreenPoints : PointerDown(p, FALSE)
    \/ \E p \in ScreenPoints : PointerMove(p)
    \/ PointerUp
    \/ \E code \in KeyCodes : KeyDown(code)
    \/ /\ nextUid + InFlight("src") <= MaxLoadImages
       /\ Len(pending) < MaxInFlight
       /\ Other(addImage)
    \/ \E k \in Indices(pending), nat \in NaturalSizes :
           addImageOnLoad(k, nat) /\ UNCHANGED <<apiVars, painted>> /\ last' = "loaded" /\ UNCHANGED pressed
    \/ \E k \in Indices(pending) :
           /\ imageOnError(k)
           /\ UNCHANGED <<apiVars, painted>>
           /\ last' = IF pending[k].kind = "src" THEN "failed" ELSE "other"
           /\ UNCHANGED pressed
    \/ \E imageData \in LoadData :
           /\ updates + InFlight("data") < MaxDataLoads
           /\ Len(pending) < MaxInFlight
           /\ Other(addImageFromData(imageData, TRUE))
    \/ \E k \in Indices(pending) : Other(addImageFromDataOnLoad(k))
    \/ Other(clearImages)

SpecLoad == Init /\ [][NextLoad]_vars

\* the selection callback registered, its timers, and the events that change
\* the selection or the image list
NextNotify ==
    \/ Other(setSelectionChangeCallback)
    \/ Other(TimerFires)
    \/ \E p \in ScreenPoints, shiftKey \in BOOLEAN :
           PointerDown(p, shiftKey) /\ timers' <= MaxTimers
    \/ \E p \in ScreenPoints : PointerMove(p) /\ timers' <= MaxTimers
    \/ PointerUp
    \/ \E code \in KeyCodes : KeyDown(code)
    \/ Room /\ Other(addImage)
    \/ \E k \in Indices(pending), nat \in NaturalSizes : Other(addImageOnLoad(k, nat))
    \/ Other(clearImages)

SpecNotify == Init /\ [][NextNotify]_vars

\* the scales the zooming starts from: 1, and the two ends of the range, which
\* zooming at the origin reaches with the translation still (0, 0)
StartScales == {ScaleMin, ScaleOne, ScaleMax}

InitZoom ==
    /\ InitApi
    /\ images = <<>>
    /\ groups = <<>>
    /\ \E scale \in StartScales : viewport = [scale |-> scale, tx |-> 0, ty |-> 0]
    /\ dragState = IdleDrag
    /\ selectionState = IdleSelection
    /\ isPanning = FALSE
    /\ keys = {}
    /\ needsRedraw = FALSE
    /\ painted = draw(<<>>, viewport, IdleSelection)
    /\ onSelectionChange = FALSE
    /\ timers = 0
    /\ focused = FALSE
    /\ pending = <<>>
    /\ nextUid = 1
    /\ updates = 0
    /\ nextGroupId = 1
    /\ pressed = FALSE
    /\ last = "new"

\* wheel events, the pan key and pointer gestures on an empty canvas
NextZoom ==
    \/ \E p \in WheelPoints, zoomKey \in BOOLEAN, deltaYPositive \in BOOLEAN :
           Wheel(p, zoomKey, deltaYPositive)
    \/ \E code \in PanKeyCodes : KeyDown(code)
    \/ \E code \in PanKeyCodes : KeyUp(code)
    \/ \E p \in WheelPoints : PointerDown(p, FALSE)
    \/ \E p \in WheelPoints : PointerMove(p)
    \/ PointerUp

SpecZoom == InitZoom /\ [][NextZoom]_vars

\* pointer events as the listeners get them, with no order imposed: a second
\* pointer goes down while the first is down, the pointer moves with no
\* button down.  `pressed` tells whether a pointerdown came after the last
\* pointerup; `last` names the event
AnyPointerDown(p, shiftKey) ==
    /\ handlePointerDown(p, shiftKey)
    /\ pressed' = TRUE
    /\ UNCHANGED <<apiVars, painted>>
    /\ last' = DownBranch(p, shiftKey)

AnyPointerMove(p) ==
    /\ handlePointerMove(p)
    /\ UNCHANGED <<apiVars, painted>>
    /\ last' = "move"
    /\ UNCHANGED pressed

AnyPointerUp ==
    /\ handlePointerUp
    /\ pressed' = FALSE
    /\ UNCHANGED <<apiVars, painted>>
    /\ last' = "up"

\* screenToWorld(p) is whole in the units of the model
WholePoint(p) ==
    /\ ((p.x - viewport.tx) * ScaleOne) % viewport.scale = 0
    /\ ((p.y - viewport.ty) * ScaleOne) % viewport.scale = 0

\* pointer, wheel and key events in any order on a canvas of up to
\* MaxGestureImages images; the wheel turns with the cursor at the origin
NextGesture ==
    \/ \E p \in ScreenPoints, shiftKey \in BOOLEAN :
           WholePoint(p) /\ AnyPointerDown(p, shiftKey)
    \/ \E p \in ScreenPoints :
           WholePoint(p) /\ AnyPointerMove(p) /\ Near(viewport'.tx)
    \/ AnyPointerUp
    \/ \E zoomKey \in BOOLEAN, deltaYPositive \in BOOLEAN :
           Wheel(Origin, zoomKey, deltaYPositive)
    \/ \E code \in PanKeyCodes : KeyDown(code)
    \/ \E code \in PanKeyCodes : KeyUp(code)
    \/ /\ nextUid + InFlight("src") <= MaxGestureImages
       /\ Len(pending) < MaxPending
       /\ Other(addImage)
    \/ \E k \in Indices(pending), nat \in NaturalSizes : Other(addImageOnLoad(k, nat))

SpecGesture == Init /\ [][NextGesture]_vars

\* one pointer at a time, with the pan key pressed and released, on a canvas
\* of up to MaxLoadImages images that can be grouped
NextPan ==
    \/ \E p \in ScreenPoints, shiftKey \in BOOLEAN : PointerDown(p, shiftKey)
    \/ \E p \in ScreenPoints : PointerMove(p) /\ Near(viewport'.tx)
    \/ PointerUp
    \/ \E code \in PanKeyCodes : KeyDown(code)
    \/ \E code \in PanKeyCodes : KeyUp(code)
    \/ /\ nextUid + InFlight("src") <= MaxLoadImages
       /\ Len(pending) < MaxPending
       /\ Other(addImage)
    \/ \E k \in Indices(pending), nat \in NaturalSizes : Other(addImageOnLoad(k, nat))
    \/ Group

SpecPan == Init /\ [][NextPan]_vars

\* images added in pairs, selected by click and marquee, grouped and
\* ungrouped, with up to MaxNamedGroups groups made
NextNames ==
    \/ \E p \in ScreenPoints : PointerDown(p, FALSE)
    \/ \E p \in ScreenPoints : PointerMove(p)
    \/ PointerUp
    \/ /\ nextUid + InFlight("src") <= MaxNamedImages
       /\ Len(pending) < MaxPending
       /\ ~pressed
       /\ Other(addImage)
    \/ \E k \in Indices(pending), nat \in NaturalSizes : Other(addImageOnLoad(k, nat))
    \/ /\ ~pressed
       /\ groupSelectedImagesUpTo(MaxNamedGroups)
       /\ UNCHANGED <<apiVars, painted>>
       /\ last' = IF groupSelectedReturn(images, nextGroupId) = <<>> THEN "other" ELSE "group"
       /\ UNCHANGED pressed
    \/ ~pressed /\ Ungroup

SpecNames == Init /\ [][NextNames]_vars

\* the places of the pointer events while the painting is examined: on the
\* image as added, and left of it
RenderPoints == {p \in ScreenPoints : p.x <= MaxCoord}

\* an animation frame; `last` tells whether it painted
Frame ==
    /\ render
    /\ UNCHANGED <<apiVars, pressed>>
    /\ last' = IF needsRedraw THEN "paint" ELSE "frame"

\* the canvas changed by pointer gestures, the Delete key, decodes, grouping,
\* ungrouping and clearImages, with animation frames in between
NextRender ==
    \/ \E p \in RenderPoints : PointerDown(p, FALSE)
    \/ \E p \in RenderPoints : PointerMove(p)
    \/ PointerUp
    \/ \E code \in KeyCodes : KeyDown(code)
    \/ /\ nextUid + InFlight("src") <= MaxLoadImages
       /\ Len(pending) < MaxPending
       /\ Other(addImage)
    \/ \E k \in Indices(pending), nat \in NaturalSizes : Other(addImageOnLoad(k, nat))
    \/ Group
    \/ Ungroup
    \/ Other(clearImages)
    \/ Frame

\* requestAnimationFrame keeps calling render
SpecRender == Init /\ [][NextRender]_vars /\ WF_vars(Frame)

\* -------------------------------------------------------------- API client

\* a truth value that never fails: the variant C20 is checked to exclude
TruthyAlways(id) == TRUE

\* the truth value JavaScript gives this.canvasId: null and "" are falsy
Truthy(id) == id # Null /\ id # ""

\* throw new Error('No canvas loaded') as the first statement of op
throwNoCanvas(op) ==
    /\ outcome' = [op |-> op, error |-> "No canvas loaded"]
    /\ UNCHANGED <<canvasId, websocket, apiCallbacks, requests, awaiting, sockets, delivered>>

\* fetch(url, {method}) or new WebSocket(url); id is the canvas id in the url
issue(method, path, id) ==
    /\ Len(requests) < MaxRequests
    /\ requests' = Append(requests, [method |-> method, path |-> path, id |-> id])

\* a method that checks this.canvasId and then fetches; what follows the
\* await changes no field
guardedFetch(op, method, path) ==
    IF ~Truthy(canvasId)
    THEN throwNoCanvas(op)
    ELSE /\ issue(method, path, canvasId)
         /\ outcome' = [op |-> op, error |-> ""]
         /\ UNCHANGED <<canvasId, websocket, apiCallbacks, awaiting, sockets, delivered>>

\* a method that fetches with no check of this.canvasId
plainFetch(op, method, path) ==
    /\ issue(method, path, "")
    /\ outcome' = [op |-> op, error |-> ""]
    /\ UNCHANGED <<canvasId, websocket, apiCallbacks, awaiting, sockets, delivered>>

\* createCanvas(), up to its await
CanvasAPI_createCanvas ==
    /\ issue("POST", "canvas", "")
    /\ awaiting' = Append(awaiting, [op |-> "createCanvas", id |-> ""])
    /\ outcome' = [op |-> "createCanvas", error |-> ""]
    /\ UNCHANGED <<canvasId, websocket, apiCallbacks, sockets, delivered>>

\* getCanvas(id), up to its await
CanvasAPI_getCanvas(id) ==
    /\ issue("GET", "canvas/{id}", id)
    /\ awaiting' = Append(awaiting, [op |-> "getCanvas", id |-> id])
    /\ outcome' = [op |-> "getCanvas", error |-> ""]
    /\ UNCHANGED <<canvasId, websocket, apiCallbacks, sockets, delivered>>

\* the response to the k-th suspended call arrives: createCanvas takes the id
\* the server made, getCanvas the id it asked for; a response that is not ok
\* throws and sets nothing
CanvasAPI_response(k, ok, serverId) ==
    /\ k \in Indices(awaiting)
    /\ awaiting' = Without(awaiting, k)
    /\ canvasId' = IF ~ok THEN canvasId
                   ELSE IF awaiting[k].op = "createCanvas" THEN serverId
                   ELSE awaiting[k].id
    /\ outcome' = [op |-> awaiting[k].op, error |-> IF ok THEN "" ELSE "HTTP error"]
    /\ UNCHANGED <<websocket, apiCallbacks, requests, sockets, delivered>>

CanvasAPI_updateCanvas == guardedFetch("updateCanvas", "PUT", "canvas/{id}")

CanvasAPI_addImage == guardedFetch("addImage", "POST", "canvas/{id}/images")

CanvasAPI_deleteImage == guardedFetch("deleteImage", "DELETE", "canvas/{id}/images/{imageId}")

CanvasAPI_createGroup == guardedFetch("createGroup", "POST", "canvas/{id}/groups")

CanvasAPI_deleteGroup == guardedFetch("deleteGroup", "DELETE", "canvas/{id}/groups/{groupId}")

CanvasAPI_getMessages == guardedFetch("getMessages", "GET", "canvas/{id}/messages")

CanvasAPI_sendMessage == guardedFetch("sendMessage", "POST", "canvas/{id}/messages")

CanvasAPI_uploadImage == plainFetch("uploadImage", "POST", "upload")

CanvasAPI_healthCheck == plainFetch("healthCheck", "GET", "health")

\* new WebSocket(`${WS_BASE_URL}/${id}`), with the canvasId fields of the
\* messages written to it
newWebSocket(id) == [id |-> id, readyState |-> "CONNECTING", sent |-> {}]

\* connectWebSocket(callbacks)
CanvasAPI_connectWebSocket ==
    IF ~Truthy(canvasId)
    THEN throwNoCanvas("connectWebSocket")
    ELSE /\ apiCallbacks' = TRUE
         /\ issue("WS", "ws/{id}", canvasId)
         /\ websocket' = canvasId
         /\ sockets' = Append(sockets, newWebSocket(canvasId))
         /\ outcome' = [op |-> "connectWebSocket", error |-> ""]
         /\ UNCHANGED <<canvasId, awaiting, delivered>>

\* disconnectWebSocket(): this.websocket, when not null, is the socket
\* constructed last
CanvasAPI_disconnectWebSocket ==
    /\ websocket' = Null
    /\ sockets' = IF websocket # Null
                  THEN [sockets EXCEPT ![Len(sockets)].readyState = "CLOSED"]
                  ELSE sockets
    /\ outcome' = [op |-> "disconnectWebSocket", error |-> ""]
    /\ UNCHANGED <<canvasId, apiCallbacks, requests, awaiting, delivered>>

\* sendWebSocketMessage(type, data): the message carries this.canvasId
CanvasAPI_sendWebSocketMessage ==
    /\ sockets' = IF websocket # Null /\ sockets[Len(sockets)].readyState = "OPEN"
                  THEN [sockets EXCEPT ![Len(sockets)].sent = @ \cup {canvasId}]
                  ELSE sockets
    /\ outcome' = [op |-> "sendWebSocketMessage", error |-> ""]
    /\ UNCHANGED <<canvasId, websocket, apiCallbacks, requests, awaiting, delivered>>

\* the connection of the k-th socket is established (onopen)
WebSocket_onopen(k) ==
    /\ k \in Indices(sockets)
    /\ sockets[k].readyState = "CONNECTING"
    /\ sockets' = [sockets EXCEPT ![k].readyState = "OPEN"]
    /\ outcome' = [op |-> "onopen", error |-> ""]
    /\ UNCHANGED <<canvasId, websocket, apiCallbacks, requests, awaiting, delivered>>

\* a message arrives on the k-th socket: its onmessage calls the callbacks
\* object of the connectWebSocket call that made the socket
WebSocket_onmessage(k) ==
    /\ k \in Indices(sockets)
    /\ sockets[k].readyState = "OPEN"
    /\ delivered' = k
    /\ outcome' = [op |-> "onmessage", error |-> ""]
    /\ UNCHANGED <<canvasId, websocket, apiCallbacks, requests, awaiting, sockets>>

\* the server or the network closes the k-th socket (onclose logs only)
WebSocket_onclose(k) ==
    /\ k \in Indices(sockets)
    /\ sockets[k].readyState # "CLOSED"
    /\ sockets' = [sockets EXCEPT ![k].readyState = "CLOSED"]
    /\ outcome' = [op |-> "onclose", error |-> ""]
    /\ UNCHANGED <<canvasId, websocket, apiCallbacks, requests, awaiting, delivered>>

\* setCanvasId(id)
CanvasAPI_setCanvasId(id) ==
    /\ canvasId' = id
    /\ outcome' = [op |-> "setCanvasId", error |-> ""]
    /\ UNCHANGED <<websocket, apiCallbacks, requests, awaiting, sockets, delivered>>

\* a call on the API client leaves the canvas alone
ApiCall(A) == A /\ UNCHANGED <<canvasVars, pressed, last, painted>>

\* the ids a server makes for new canvases
ServerIds == {"c1", "c2"}

\* the methods of the API client called in any order, the responses to
\* createCanvas and getCanvas arriving at any later time
NextApi ==
    \/ ApiCall(CanvasAPI_createCanvas)
    \/ \E id \in CanvasIdStrings : ApiCall(CanvasAPI_getCanvas(id))
    \/ \E k \in Indices(awaiting), ok \in BOOLEAN, serverId \in ServerIds :
           ApiCall(CanvasAPI_response(k, ok, serverId))
    \/ ApiCall(CanvasAPI_updateCanvas)
    \/ ApiCall(CanvasAPI_addImage)
    \/ ApiCall(CanvasAPI_deleteImage)
    \/ ApiCall(CanvasAPI_createGroup)
    \/ ApiCall(CanvasAPI_deleteGroup)
    \/ ApiCall(CanvasAPI_getMessages)
    \/ ApiCall(CanvasAPI_sendMessage)
    \/ ApiCall(CanvasAPI_uploadImage)
    \/ ApiCall(CanvasAPI_healthCheck)
    \/ ApiCall(CanvasAPI_connectWebSocket)
    \/ ApiCall(CanvasAPI_disconnectWebSocket)
    \/ \E id \in CanvasIdStrings : ApiCall(CanvasAPI_setCanvasId(id))

SpecApi == Init /\ [][NextApi]_vars

\* the canvas id set by createCanvas, getCanvas or setCanvasId, sockets
\* connected, written to and disconnected by the client, opened, written to
\* and closed by the server
NextSocket ==
    \/ ApiCall(CanvasAPI_createCanvas)
    \/ \E id \in CanvasIdStrings : ApiCall(CanvasAPI_getCanvas(id))
    \/ \E k \in Indices(awaiting), ok \in BOOLEAN, serverId \in ServerIds :
           ApiCall(CanvasAPI_response(k, ok, serverId))
    \/ \E id \in CanvasIdStrings : ApiCall(CanvasAPI_setCanvasId(id))
    \/ ApiCall(CanvasAPI_connectWebSocket)
    \/ ApiCall(CanvasAPI_disconnectWebSocket)
    \/ ApiCall(CanvasAPI_sendWebSocketMessage)
    \/ \E k \in Indices(sockets) : ApiCall(WebSocket_onopen(k))
    \/ \E k \in Indices(sockets) : ApiCall(WebSocket_onmessage(k))
    \/ \E k \in Indices(sockets) : ApiCall(WebSocket_onclose(k))

SpecSocket == Init /\ [][NextSocket]_vars

\* ======================================================================
\* Properties
\* ======================================================================

\* the groups of grps whose id is gid
GroupsWithId(grps, gid) == {k \in Indices(grps) : grps[k].id = gid}

\* the indices of the images of imgs a group lists
Members(imgs, group) == {i \in Indices(imgs) : imgs[i].id \in Range(group.imageIds)}

\* an image whose groupId names no group of the collection
Dangling(imgs, grps, i) ==
    imgs[i].groupId # None /\ GroupsWithId(grps, imgs[i].groupId) = {}

\* C1: every image that has a groupId references a group of the collection
\* whose imageIds contains the image's id.
C1_GroupIdReferencesGroup ==
    \A i \in Indices(images) :
        images[i].groupId # None =>
            \E k \in Indices(groups) :
                /\ groups[k].id = images[i].groupId
                /\ images[i].id \in Range(groups[k].imageIds)

\* C2: every id a group lists is the id of an image of the list, and that
\* image's groupId is the group's id.
C2_GroupListsLiveMembers ==
    \A k \in Indices(groups) :
        \A id \in Range(groups[k].imageIds) :
            \E i \in Indices(images) :
                images[i].id = id /\ images[i].groupId = groups[k].id

\* C3: every group of the collection lists at least 2 image ids; a removal
\* that would leave fewer drops the group.
C3_GroupsHaveTwoMembers ==
    \A k \in Indices(groups) :
        /\ Len(groups[k].imageIds) >= 2
        /\ Cardinality(Range(groups[k].imageIds)) >= 2

\* C3 witness: an ungrouping, regrouping or deletion has dissolved a group
\* around a member that is still in the list.
C3_Witness ==
    /\ last \in {"ungroup", "group", "delete"}
    /\ \E i \in Indices(images) : Dangling(images, groups, i)

\* C4: of every group either all member images are selected or none is.
C4_GroupSelectedAsWhole ==
    \A k \in Indices(groups) :
        \/ \A i \in Members(images, groups[k]) : images[i].selected
        \/ \A i \in Members(images, groups[k]) : ~images[i].selected

\* C9: each image id is listed by at most one group.
C9_AtMostOneGroup ==
    \A k1, k2 \in Indices(groups) :
        k1 # k2 => Range(groups[k1].imageIds) \cap Range(groups[k2].imageIds) = {}

\* the image a pointerdown at screen point p hits (0: none)
HitAt(p) == getImageAt(images, screenToWorld(viewport, p))

\* the images that share the groupId of images[hit]
SameGroupId(imgs, hit) ==
    {i \in Indices(imgs) : imgs[hit].groupId # None /\ imgs[i].groupId = imgs[hit].groupId}

\* C5, its state after a shift-pointerdown that hit images[hit]: an ungrouped
\* image alone flips; a group ends all-deselected if all its members were
\* selected before, all-selected otherwise.
C5_After(hit) ==
    /\ Len(images') = Len(images)
    /\ IF images[hit].groupId = None
       THEN \A i \in Indices(images) :
                images'[i].selected =
                    (IF i = hit THEN ~images[hit].selected ELSE images[i].selected)
       ELSE LET allBefore == \A i \in SameGroupId(images, hit) : images[i].selected
            IN  \A i \in SameGroupId(images, hit) : images'[i].selected = ~allBefore

\* C5: a pointer-down with shift held on an image toggles the image, or its
\* whole group according to whether all members were selected before.
C5_ShiftClickToggles ==
    [][\A p \in ScreenPoints :
          (PointerDown(p, TRUE) /\ "Space" \notin keys /\ HitAt(p) # 0)
              => C5_After(HitAt(p))]_vars

\* the ids of the selected images
SelectedIds(imgs) == {imgs[i].id : i \in SelectedIndices(imgs)}

\* the groups grps are the groups old with the ids gone taken out of each and
\* the groups left with fewer than 2 ids dropped
ShrunkOrDissolved(old, grps, gone) ==
    /\ \A k \in Indices(grps) :
           /\ Range(grps[k].imageIds) \cap gone = {}
           /\ \E j \in Indices(old) :
                  /\ old[j].id = grps[k].id
                  /\ grps[k].imageIds =
                         SelectSeq(old[j].imageIds, LAMBDA id : id \notin gone)
    /\ \A j \in Indices(old) :
           (Cardinality(Range(old[j].imageIds) \ gone) >= 2)
               <=> (\E k \in Indices(grps) : grps[k].id = old[j].id)

\* C6: with at least 2 images selected, groupSelectedImages() adds exactly one
\* group, listing exactly the selected ids; every selected image gets its id
\* as groupId; the selected images are first taken out of the groups they
\* belonged to, which shrink or dissolve; the new group's id is returned.
C6_GroupSelected ==
    [][(Group /\ Len(SelectedImages(images)) >= 2) =>
          LET new == groups'[Len(groups')]
              rest == SubSeq(groups', 1, Len(groups') - 1)
          IN  /\ Len(groups') >= 1
              /\ new.id \notin GroupIds
              /\ new.imageIds = IdsOf(SelectedImages(images))
              /\ \A k \in Indices(rest) : rest[k].id # new.id
              /\ ShrunkOrDissolved(groups, rest, SelectedIds(images))
              /\ Len(images') = Len(images)
              /\ \A i \in SelectedIndices(images) : images'[i].groupId = new.id
              /\ groupSelectedReturn(images, nextGroupId) = <<new.id>>]_vars

\* C7: ungroupSelectedImages() clears the groupId of every selected image that
\* had one and takes its id out of its group, which shrinks or dissolves;
\* selection and positions stay; the ids of those images are returned, a
\* non-empty list iff canUngroup() held before; canUngroup() is false after.
C7_UngroupSelected ==
    [][Ungroup =>
          LET had == {i \in Indices(images) :
                         images[i].selected /\ images[i].groupId # None}
              ret == ungroupSelected(images, groups).ret
          IN  /\ Len(images') = Len(images)
              /\ \A i \in had : images'[i].groupId = None
              /\ ShrunkOrDissolved(groups, groups', {images[i].id : i \in had})
              /\ \A i \in Indices(images) :
                     /\ images'[i].selected = images[i].selected
                     /\ images'[i].x = images[i].x /\ images'[i].y = images[i].y
                     /\ images'[i].id = images[i].id
              /\ ret = IdsOf(SelectSeq(images,
                                 LAMBDA img : img.selected /\ img.groupId # None))
              /\ (ret # <<>>) <=> canUngroup(images)
              /\ ~canUngroup(images')]_vars

\* C7 witness: an ungrouping has dissolved a group whose members, both
\* selected, are left without groupId.
C7_Witness ==
    /\ last = "ungroup"
    /\ groups = <<>>
    /\ Len(SelectedImages(images)) >= 2
    /\ \A i \in Indices(images) : images[i].groupId = None

\* C8: a Delete or Backspace keydown with the focus on the canvas removes
\* exactly the selected images, the others keeping their order, and leaves no
\* group listing a deleted id; with the focus elsewhere it changes neither
\* the images nor the groups.
C8_DeleteKey ==
    [][\A code \in KeyCodes \cap {"Delete", "Backspace"} :
          KeyDown(code) =>
              IF focused
              THEN /\ IdsOf(images') =
                          IdsOf(SelectSeq(images, LAMBDA img : ~img.selected))
                   /\ \A k \in Indices(groups') :
                          Range(groups'[k].imageIds) \cap SelectedIds(images) = {}
              ELSE images' = images /\ groups' = groups]_vars

\* C10: a pointer-down without shift, the pan key not held, on an unselected
\* image leaves selected exactly that image and the images sharing its groupId.
C10_ClickSelectsGroup ==
    [][\A p \in ScreenPoints :
          (/\ PointerDown(p, FALSE)
           /\ "Space" \notin keys
           /\ HitAt(p) # 0
           /\ ~images[HitAt(p)].selected)
              => /\ Len(images') = Len(images)
                 /\ \A i \in Indices(images) :
                        images'[i].selected <=>
                            (i = HitAt(p) \/ i \in SameGroupId(images, HitAt(p)))]_vars

\* C10 witness: such a pointer-down has selected a whole group of 2 and left
\* another image unselected.
C10_Witness ==
    /\ last = "select"
    /\ \E i, j \in Indices(images) :
           /\ i # j
           /\ images[i].selected /\ images[j].selected
           /\ images[i].groupId # None /\ images[i].groupId = images[j].groupId
    /\ \E i \in Indices(images) : ~images[i].selected

\* the bounding box of an image
BoxOf(img) == [x |-> img.x, y |-> img.y, w |-> img.w, h |-> img.h]

\* C11: a pointer-move of a marquee gesture deselects no image: what was
\* selected before it, by an earlier pass of the gesture or when a
\* shift-marquee began, is selected after it, wherever the rectangle is now.
C11_MarqueeMonotonic ==
    [][\A p \in ScreenPoints :
          (PointerMove(p) /\ MoveBranch = "sweep")
              => /\ Len(images') = Len(images)
                 /\ \A i \in Indices(images) :
                        images[i].selected => images'[i].selected]_vars

\* C11 witness: after a pointer-move of a marquee gesture an image is
\* selected that the rectangle does not touch.
C11_Witness ==
    /\ last = "sweep"
    /\ \E i \in Indices(images) :
           /\ images[i].selected
           /\ ~rectanglesIntersect(getMarqueeRect(selectionState), BoxOf(images[i]))

\* the normalized rectangle spanned by two points
SpannedRect(a, b) ==
    [x |-> IF a.x <= b.x THEN a.x ELSE b.x,
     y |-> IF a.y <= b.y THEN a.y ELSE b.y,
     w |-> IF a.x <= b.x THEN b.x - a.x ELSE a.x - b.x,
     h |-> IF a.y <= b.y THEN b.y - a.y ELSE a.y - b.y]

\* two rectangles separated on an axis
Separated(a, b) ==
    \/ a.x + a.w < b.x \/ b.x + b.w < a.x
    \/ a.y + a.h < b.y \/ b.y + b.h < a.y

\* the scenario of C12: A(100,100,50,50), B(200,200,50,50) and the marquee
\* from (90,90) to (160,160)
C12_Scenario ==
    LET sel == [isSelecting |-> TRUE, startPoint |-> [x |-> 90, y |-> 90],
                currentPoint |-> [x |-> 160, y |-> 160]]
        A == [x |-> 100, y |-> 100, w |-> 50, h |-> 50, selected |-> FALSE,
              id |-> 1, groupId |-> None, oid |-> 1]
        B == [x |-> 200, y |-> 200, w |-> 50, h |-> 50, selected |-> FALSE,
              id |-> 2, groupId |-> None, oid |-> 2]
        after == updateMarqueeSelection(<<A, B>>, sel)
    IN  after[1].selected /\ ~after[2].selected

\* C12: a pointer-down on empty canvas leaves nothing selected, or with shift
\* the selection as it was; each pointer-move of the marquee gesture adds to
\* the selection exactly the images whose box is not separated from the
\* normalized rectangle spanned by the start point and the pointer; so after
\* each move the selection is what the rectangles of the gesture so far have
\* touched, united with the selection kept at a shift pointer-down.
C12_MarqueeSelects ==
    [][/\ \A p \in ScreenPoints, shiftKey \in BOOLEAN :
              (PointerDown(p, shiftKey) /\ "Space" \notin keys /\ HitAt(p) = 0)
                  => /\ Len(images') = Len(images)
                     /\ \A i \in Indices(images) :
                            images'[i].selected <=> (shiftKey /\ images[i].selected)
                     /\ selectionState'.startPoint = screenToWorld(viewport, p)
       /\ \A p \in ScreenPoints :
              (PointerMove(p) /\ MoveBranch = "sweep")
                  => /\ Len(images') = Len(images)
                     /\ selectionState'.startPoint = selectionState.startPoint
                     /\ \A i \in Indices(images) :
                            images'[i].selected <=>
                                \/ images[i].selected
                                \/ ~Separated(SpannedRect(selectionState.startPoint,
                                                          screenToWorld(viewport, p)),
                                              BoxOf(images[i]))
       /\ C12_Scenario]_vars

\* C12 witness: a pointer-move of a marquee gesture has left one image
\* selected and another not.
C12_Witness ==
    /\ last = "sweep"
    /\ \E i, j \in Indices(images) : images[i].selected /\ ~images[j].selected

\* C13: a wheel event with the zoom modifier at screen point p leaves the
\* world point under p where it was: w = screenToWorld(p) before the event
\* satisfies p = w * scale + translate after it, in both directions and when
\* the new scale is clamped.  From scale 1 and translate (0, 0) a zoom-in at
\* (50, 50) gives scale 1.1 with world (50, 50) still at screen (50, 50).
C13_ZoomAnchored ==
    [][\A p \in WheelPoints, deltaYPositive \in BOOLEAN :
          Wheel(p, TRUE, deltaYPositive) =>
              LET w == screenToWorld(viewport, p)
              IN  /\ (p.x - viewport'.tx) * ScaleOne = w.x * viewport'.scale
                  /\ (p.y - viewport'.ty) * ScaleOne = w.y * viewport'.scale
                  /\ screenToWorld(viewport', p) = w
                  /\ (/\ viewport = [scale |-> ScaleOne, tx |-> 0, ty |-> 0]
                      /\ p = [x |-> 50, y |-> 50]
                      /\ ~deltaYPositive)
                         => /\ viewport'.scale = 1100
                            /\ worldToScreen(viewport', [x |-> 50, y |-> 50]) = p]_vars

\* C13 witness: a zoom has moved the translation, so the anchor was off the
\* world origin, and the scale is at an end of its range.
C13_Witness ==
    /\ last = "zoom"
    /\ viewport.scale \in {ScaleMin, ScaleMax}
    /\ viewport.tx # 0

C15_SelectionChangeNotified ==
    [][(onSelectionChange /\ SelectedIds(images') # SelectedIds(images))
           => timers' > timers]_vars

\* the state a decode of addImage must leave alone
Untouched ==
    /\ groups' = groups
    /\ viewport' = viewport
    /\ dragState' = dragState
    /\ selectionState' = selectionState
    /\ isPanning' = isPanning

C18_UniqueIds ==
    \A i, j \in Indices(images) : i # j => images[i].id # images[j].id

\* C18 witness: two decodes of addImageFromData for the same new id have
\* completed and the list holds the node of the second.
C18_Witness ==
    /\ nextUid = 1
    /\ updates = 2
    /\ Len(images) = 1
    /\ images[1].id = ExternalId /\ images[1].oid = DataOid(2)

\* C19: canGroup() is true iff at least 2 images are selected; with fewer
\* than 2 selected groupSelectedImages() returns null and leaves the images,
\* their groupIds and selection included, and the groups as they were.
C19_GroupNeedsTwo ==
    /\ [](canGroup(images) <=> Cardinality(SelectedIndices(images)) >= 2)
    /\ [][(groupSelectedImages /\ Cardinality(SelectedIndices(images)) < 2)
             => /\ groupSelectedReturn(images, nextGroupId) = <<>>
                /\ images' = images
                /\ groups' = groups
                /\ nextGroupId' = nextGroupId]_vars

\* C19 witness: groupSelectedImages() has returned null with one image
\* selected, a member of a group.
C19_Witness ==
    /\ last = "refused"
    /\ Cardinality(SelectedIndices(images)) = 1
    /\ \E i \in Indices(images) : images[i].selected /\ images[i].groupId # None

\* the methods of the API client that target the current canvas
TargetsCurrentCanvas ==
    \/ CanvasAPI_updateCanvas
    \/ CanvasAPI_addImage
    \/ CanvasAPI_deleteImage
    \/ CanvasAPI_createGroup
    \/ CanvasAPI_deleteGroup
    \/ CanvasAPI_getMessages
    \/ CanvasAPI_sendMessage
    \/ CanvasAPI_connectWebSocket

\* C20: a method of the API client that targets the current canvas, called
\* while canvasId is null, throws 'No canvas loaded' at once, makes no HTTP
\* request, opens no socket and leaves canvasId, websocket and the callbacks
\* as they were.
C20_NoCanvasFailsAtOnce ==
    [][(TargetsCurrentCanvas /\ canvasId = Null)
         => /\ outcome'.error = "No canvas loaded"
            /\ requests' = requests
            /\ canvasId' = Null
            /\ websocket' = websocket
            /\ apiCallbacks' = apiCallbacks
            /\ awaiting' = awaiting]_vars

\* C20 witness: connectWebSocket has thrown while a createCanvas call was
\* still waiting for its response, so that no canvas id was set yet.
C20_Witness ==
    /\ outcome = [op |-> "connectWebSocket", error |-> "No canvas loaded"]
    /\ canvasId = Null
    /\ websocket = Null
    /\ \E k \in Indices(awaiting) : awaiting[k].op = "createCanvas"

\* the sockets that were opened and not closed
OpenSockets == {k \in Indices(sockets) : sockets[k].readyState # "CLOSED"}

\* C21: at most one socket of the API client is opened and not closed, and an
\* inbound message reaches the callbacks of the most recent connectWebSocket
\* call only.
C21_OneConnection ==
    /\ [](Cardinality(OpenSockets) <= 1)
    /\ [][\A k \in Indices(sockets) : WebSocket_onmessage(k) => k = Len(sockets)]_vars

\* the gesture modes
Panning == isPanning

DraggingImages == dragState.isDragging /\ dragState.hasImages

MarqueeActive == selectionState.isSelecting

ActiveGestures ==
    (IF Panning THEN {"pan"} ELSE {})
        \cup (IF DraggingImages THEN {"drag"} ELSE {})
        \cup (IF MarqueeActive THEN {"marquee"} ELSE {})

\* C22: in every state reached by pointer-down, pointer-move, pointer-up,
\* wheel and key events in any order, at most one of panning,
\* dragging-images and marquee-active is active.
C22_OneGesture == Cardinality(ActiveGestures) <= 1

\* the images a drag session moves, as indices of the image list imgs
DragSet(imgs, drag) == {i \in Indices(imgs) : imgs[i].oid \in Range(drag.draggedImages)}

\* the images that share the groupId of image hit, hit included
GroupOf(imgs, hit) == {i \in Indices(imgs) : imgs[i].groupId = imgs[hit].groupId}

\* C23: a drag session started by a pointer-down on an image of a group has
\* every member of the group in its drag set, and a pointer-move of the drag
\* moves all images of the drag set by one delta.
C23_GroupDragsTogether ==
    /\ [][\A p \in ScreenPoints, shiftKey \in BOOLEAN :
            LET hit == getImageAt(images, screenToWorld(viewport, p))
            IN  (/\ PointerDown(p, shiftKey)
                 /\ DownBranch(p, shiftKey) \in {"select", "toggle", "keep"}
                 /\ images[hit].groupId # None
                 /\ dragState'.isDragging /\ dragState'.hasImages)
                    => GroupOf(images', hit) \subseteq DragSet(images', dragState')]_vars
    /\ [][\A p \in ScreenPoints :
            (PointerMove(p) /\ MoveBranch = "drag")
                => \A i, j \in DragSet(images, dragState) :
                       /\ images'[i].x - images[i].x = images'[j].x - images[j].x
                       /\ images'[i].y - images[i].y = images'[j].y - images[j].y]_vars

\* C24: while images are dragged every pointer-move puts each image of the
\* drag set at its position at pointer-down plus the world point of the
\* pointer minus the world point of the pointer-down, whatever moves came
\* before, and leaves every other image where it was; the positions and the
\* point taken at pointer-down stay as taken until the pointer goes up.
C24_DragFromSnapshot ==
    /\ [][\A p \in ScreenPoints, shiftKey \in BOOLEAN :
            (PointerDown(p, shiftKey) /\ dragState'.isDragging /\ dragState'.hasImages)
                => /\ dragState'.startPoint = screenToWorld(viewport, p)
                   /\ \A i \in DragSet(images', dragState') :
                          dragState'.initialPositions[images'[i].id]
                              = [x |-> images[i].x, y |-> images[i].y]]_vars
    /\ [][\A p \in ScreenPoints :
            (PointerMove(p) /\ MoveBranch = "drag")
                => LET worldPoint == screenToWorld(viewport, p)
                   IN  /\ dragState' = dragState
                       /\ Len(images') = Len(images)
                       /\ \A i \in Indices(images) :
                              IF i \in DragSet(images, dragState)
                              THEN /\ images'[i].x
                                        = dragState.initialPositions[images[i].id].x
                                            + (worldPoint.x - dragState.startPoint.x)
                                   /\ images'[i].y
                                        = dragState.initialPositions[images[i].id].y
                                            + (worldPoint.y - dragState.startPoint.y)
                              ELSE images'[i] = images[i]]_vars
    /\ [][dragState' # dragState => pressed' # pressed]_vars

\* C24 witness: a drag in progress has moved an image away from its position
\* at pointer-down while a second image, outside the drag set, is on the
\* canvas.
C24_Witness ==
    /\ pressed
    /\ dragState.isDragging /\ dragState.hasImages
    /\ \E i \in DragSet(images, dragState) :
           images[i].x # dragState.initialPositions[images[i].id].x
    /\ Indices(images) \ DragSet(images, dragState) # {}

\* C25: from a pointer-up to the next pointer-down the canvas is not panning,
\* not dragging and has no marquee, whichever gesture the pointer-up ended,
\* and a pointer-move in between leaves the images (positions and selection),
\* the groups and the viewport unchanged.
C25_PointerUpEndsGesture ==
    /\ [](~pressed => (~isPanning /\ ~dragState.isDragging /\ ~selectionState.isSelecting))
    /\ [][AnyPointerUp => ~pressed']_vars
    /\ [][\A p \in ScreenPoints :
            (AnyPointerMove(p) /\ ~pressed)
                => (images' = images /\ groups' = groups /\ viewport' = viewport)]_vars

\* C25 witness: the pointer has moved after a pointer-up, on a canvas that was
\* panned and has a selected image.
C25_Witness ==
    /\ last = "move"
    /\ ~pressed
    /\ viewport.tx # 0
    /\ \E i \in Indices(images) : images[i].selected

\* what C26 asks of a pointer-down at p without shift that hits a selected
\* image: no selected flag changes, and a drag session starts whose drag set
\* is the selected images, each snapshotted where it is
KeepsSelectionAndDrags(p) ==
    /\ \A i \in Indices(images) : images'[i].selected = images[i].selected
    /\ dragState'.isDragging /\ dragState'.hasImages
    /\ DragSet(images', dragState') = SelectedIndices(images)
    /\ \A i \in SelectedIndices(images) :
           dragState'.initialPositions[images[i].id] = [x |-> images[i].x, y |-> images[i].y]

\* the pointer-down at p without shift is on an image that is selected
OnSelectedImage(p) ==
    LET hit == getImageAt(images, screenToWorld(viewport, p))
    IN  hit # 0 /\ images[hit].selected

\* C26 as stated: a pointer-down without shift on an image that is already
\* selected leaves every selected flag unchanged and starts a drag session of
\* exactly the selected images, each snapshotted at its current position.
C26_AsStated ==
    [][\A p \in ScreenPoints :
          (PointerDown(p, FALSE) /\ OnSelectedImage(p)) => KeepsSelectionAndDrags(p)]_vars

\* C26, amended: the same for a pointer-down while the pan key is not held.
C26_SelectedHitStartsDrag ==
    [][\A p \in ScreenPoints :
          (PointerDown(p, FALSE) /\ OnSelectedImage(p) /\ "Space" \notin keys)
              => KeepsSelectionAndDrags(p)]_vars

\* C26 witness: a pointer-down took the branch of the already selected image
\* with two images selected, and the drag session holds both.
C26_Witness ==
    /\ last = "keep"
    /\ Cardinality(SelectedIndices(images)) = 2
    /\ DragSet(images, dragState) = SelectedIndices(images)

\* C27: the name groupSelectedImages gives a new group differs from the name
\* of every group in the collection it is added to.
C27_FreshGroupName ==
    [][nextGroupId' # nextGroupId
          => \A g \in 1..(Len(groups') - 1) : groups'[g].name # groups'[Len(groups')].name]_vars

\* what a handler can change that draw() shows: the image list with the
\* positions, selection and groupIds, the groups, the viewport, the marquee
Drawn == <<images, groups, viewport,
           IF selectionState.isSelecting THEN <<getMarqueeRect(selectionState)>> ELSE <<>> >>

C29_MessagesCarrySocketCanvas ==
    \A k \in Indices(sockets) : sockets[k].sent \subseteq {sockets[k].id}

\* the world points hit tests are probed at: inside, on the edges and at the
\* corners of the boxes, and outside them
HitProbes == [x : (0 - 2 * MaxCoord)..(2 * MaxCoord + 2), y : 0..(2 * MaxCoord)]

\* the images whose box, edges included, holds the world point p
Holding(p) ==
    {i \in Indices(images) :
        /\ images[i].x <= p.x /\ p.x <= images[i].x + images[i].w
        /\ images[i].y <= p.y /\ p.y <= images[i].y + images[i].h}

\* the image painted on top at p: the last of the list among those holding p
TopAt(p) ==
    IF Holding(p) = {} THEN 0
    ELSE CHOOSE i \in Holding(p) : \A j \in Holding(p) : j <= i

\* C30: hit testing returns the image of highest list index whose box, edges
\* included, contains the world point, and none when no box contains it; a
\* click on overlapping images selects the top-most one and, when that one was
\* not selected, no image beneath it outside its group.
C30_HitIsTopmost ==
    /\ [](\A p \in HitProbes : getImageAt(images, p) = TopAt(p))
    /\ [][\A p \in ScreenPoints :
            LET top == TopAt(screenToWorld(viewport, p))
            IN  (PointerDown(p, FALSE) /\ top # 0)
                    => /\ images'[top].selected
                       /\ ~images[top].selected
                            => \A i \in Indices(images) :
                                   images'[i].selected
                                       => \/ i = top
                                          \/ /\ images[top].groupId # None
                                             /\ images[i].groupId = images[top].groupId]_vars

\* C30 witness: a click has selected the upper of two images that lie one on
\* the other, and not the lower one.
C30_Witness ==
    /\ last = "select"
    /\ \E i, j \in Indices(images) :
           /\ i < j
           /\ images[i].x = images[j].x /\ images[i].y = images[j].y
           /\ images[j].selected /\ ~images[i].selected

====
